---- MODULE Spec2Model ----
(***************************************************************************)
(* Model of scraper.py: main() downloads a one-page PDF report, and        *)
(* parse_emergency_data() scans the page's text lines for hospital         *)
(* sections and extracts the emergency department stats of each.           *)
(*                                                                         *)
(* A text line is a sequence of tokens: the configured phrases it contains *)
(* (hospital names, the "Emergency Department" marker, stat labels) and    *)
(* its digit runs, in their order on the line.  `phrase in line` is token  *)
(* membership, re.search(r'\d+', line) is the first digit-run token.       *)
(* Line indices are Python's (0-based); lines[k] of the source is          *)
(* Line(L, k) here.                                                        *)
(***************************************************************************)
EXTENDS Integers, Sequences, FiniteSets, TLC

VARIABLES
    pc,                 \* position in main / parse_emergency_data
    lines,              \* page.extract_text(...).split('\n'), << >> outside the parse
    pdf_stream,         \* result of download_pdf: Unset, None or Stream
    i,                  \* index of the enumerate(lines) loop
    hospital_data_map,  \* hospital name -> its 'stats' dict
    hospital_name,      \* hospital matched by the last scanned line, or None
    hdr,                \* index of the last scanned line (-1 before the scan)
    search_block,       \* indices of lines[i+1 : i+20] of the last matched line
    ed_start_index,     \* offset of the marker in search_block, or -1
    recorded,           \* history: stat label -> the assignment of the last section
    all_hospitals_data, \* the list parse_emergency_data returns
    html_table,         \* the data table main substitutes in the template
    template,           \* Unread, Missing (FileNotFoundError) or Found
    output,             \* index.html: NoFile, or the table written into it
    parse_calls,        \* history: invocations of parse_emergency_data
    generate_calls      \* history: invocations of generate_html_table

vars == <<pc, lines, pdf_stream, i, hospital_data_map, hospital_name, hdr,
          search_block, ed_start_index, recorded, all_hospitals_data,
          html_table, template, output, parse_calls, generate_calls>>

-----------------------------------------------------------------------------
(* Configuration of parse_emergency_data *)

RUH == "Royal University Hospital"
SCH == "Saskatoon City Hospital"
JPCH == "Jim Pattison Children's Hospital"
PID == "Patients in Department"
WIB == "Waiting for Inpatient Bed"
Marker == "Emergency Department"

\* The keys of target_sections, in insertion (= iteration) order.
HospitalOrder == <<RUH, SCH, JPCH>>

Hospitals == {HospitalOrder[n] : n \in 1..Len(HospitalOrder)}

target_sections ==
    [h \in Hospitals |->
        IF h = SCH THEN <<PID>> ELSE <<PID, WIB>>]

\* End offset of the slice lines[i+1 : i+20].
SearchEnd == 20

None == "None"
Unset == "Unset"
Stream == "BytesIO"

EmptyDict == [k \in {} |-> None]

\* The two fixed messages that stand in for the table.
DownloadFailedMsg ==
    [kind |-> "message", text |-> "Error: Failed to download the data source PDF."]
ParseFailedMsg ==
    [kind |-> "message", text |-> "Error: Could not parse valid emergency department data."]

NoTable == [kind |-> "unset"]
NoFile == [written |-> FALSE]

column_order == <<"Hospital", PID, WIB>>

-----------------------------------------------------------------------------
(* Input documents *)

\* Longest page body (content lines) enumerated.
MaxLines == 3

DigitRuns == {"5", "6", "7", "8", "9"}

\* The kinds of content line a page is built from.
LineKinds ==
    { <<RUH>>,
      <<SCH>>,
      <<JPCH>>,
      <<SCH, RUH, Marker, PID, "8">>,   \* two hospital names, marker and a stat
      <<Marker, PID, "6">>,             \* marker line carrying a stat
      <<PID, "5">>,
      <<Marker, PID, WIB>>,             \* table heading: labels, no digits
      <<"7", PID, WIB, "9">> }          \* two labels, digits before and after

\* Blank lines inserted after one content line: none, or enough to put the
\* following line at the last index inside / the first index outside the
\* searched span.
GapChoices == {0, SearchEnd - 2, SearchEnd - 1}

Blank == << >>

Bodies == UNION {[1..n -> LineKinds] : n \in 1..MaxLines}

Padded(body, at, gap) ==
    SubSeq(body, 1, at) \o [n \in 1..gap |-> Blank] \o SubSeq(body, at + 1, Len(body))

Documents ==
    {<<Blank>>} \cup
    {Padded(b, at, g) : <<b, at, g>> \in
        {t \in Bodies \X (1..MaxLines) \X GapChoices :
            /\ t[2] <= Len(t[1])
            /\ t[2] <= 2
            /\ (t[3] # 0 => t[2] < Len(t[1]))
            /\ (t[3] = 0 => t[2] = 1)}}

-----------------------------------------------------------------------------
(* Helpers of parse_emergency_data *)

Min(a, b) == IF a < b THEN a ELSE b

Line(L, k) == L[k + 1]

\* `phrase in line`
Contains(line, phrase) == \E n \in 1..Len(line) : line[n] = phrase

IsDigitRun(tok) == tok \in DigitRuns

\* re.search(r'\d+', line): the first digit run of the line, or None.
re_search(line) ==
    LET d == SelectSeq(line, IsDigitRun)
    IN  IF d = << >> THEN None ELSE d[1]

\* The indices of the Python slice L[a : b].
PySlice(L, a, b) ==
    LET hi == Min(b, Len(L))
    IN  IF hi <= a THEN << >> ELSE [n \in 1..(hi - a) |-> a + n - 1]

\* Mutant: the block is the next 20 lines, lines[i+1 : i+21].
SearchBlockOneMore(L, k) == PySlice(L, k + 1, k + SearchEnd + 1)

\* search_block = lines[i+1 : i+20]
SearchBlock(L, k) == PySlice(L, k + 1, k + SearchEnd)

\* Mutant: the stats are searched from the top of the block, marker or not.
FindEdUngated(L, block, j) == IF block = << >> THEN -1 ELSE 0

\* The loop that finds ed_start_index: the offset of the first line of the
\* block that contains the marker, or -1.
RECURSIVE FindEd(_, _, _)
FindEd(L, block, j) ==
    IF j >= Len(block) THEN -1
    ELSE IF Contains(Line(L, block[j + 1]), Marker) THEN j
    ELSE FindEd(L, block, j + 1)

\* ed_search_area = search_block[ed_start_index:]
EdSearchArea(block, ed) == SubSeq(block, ed + 1, Len(block))

\* Mutant: the inner loop without its break.
RECURSIVE StatWritesNoBreak(_, _, _, _)
StatWritesNoBreak(L, area, key, k) ==
    IF k >= Len(area) THEN << >>
    ELSE IF /\ Contains(Line(L, area[k + 1]), key)
            /\ re_search(Line(L, area[k + 1])) # None
         THEN <<area[k + 1]>> \o StatWritesNoBreak(L, area, key, k + 1)
         ELSE StatWritesNoBreak(L, area, key, k + 1)

\* Mutant: the break taken at the first line with the label, digits or not.
RECURSIVE StatWritesFirstCandidate(_, _, _, _)
StatWritesFirstCandidate(L, area, key, k) ==
    IF k >= Len(area) THEN << >>
    ELSE IF Contains(Line(L, area[k + 1]), key)
         THEN IF re_search(Line(L, area[k + 1])) # None
              THEN <<area[k + 1]>> ELSE << >>
         ELSE StatWritesFirstCandidate(L, area, key, k + 1)

\* The loop over ed_search_area for one stat_key: the indices of the lines
\* whose value is assigned to stats[stat_key], in order.  The break follows
\* the assignment, so a line with the label and no digits is passed over.
RECURSIVE StatWrites(_, _, _, _)
StatWrites(L, area, key, k) ==
    IF k >= Len(area) THEN << >>
    ELSE IF /\ Contains(Line(L, area[k + 1]), key)
            /\ re_search(Line(L, area[k + 1])) # None
         THEN <<area[k + 1]>>
         ELSE StatWrites(L, area, key, k + 1)

StatsToFind(h) == {target_sections[h][n] : n \in 1..Len(target_sections[h])}

\* The assignments made while the section found at line k is processed:
\* stat label -> line the final value comes from, the value, and the number
\* of assignments.
SectionRecorded(L, k, h) ==
    LET block == SearchBlock(L, k)
        ed == FindEd(L, block, 0)
        area == EdSearchArea(block, ed)
        found == IF ed = -1 THEN {}
                 ELSE {key \in StatsToFind(h) : StatWrites(L, area, key, 0) # << >>}
    IN  [key \in found |->
            LET w == StatWrites(L, area, key, 0)
            IN  [line |-> w[Len(w)],
                 value |-> re_search(Line(L, w[Len(w)])),
                 writes |-> Len(w)]]

\* Mutant: the stats dict is rebuilt for every section found.
UpdateStatsReset(stats, rec) == [key \in DOMAIN rec |-> rec[key].value]

\* hospital_data_map[hospital_name]['stats'][stat_key] = value, for every
\* label recorded.
UpdateStats(stats, rec) ==
    [key \in DOMAIN stats \cup DOMAIN rec |->
        IF key \in DOMAIN rec THEN rec[key].value ELSE stats[key]]

\* Mutant: the hospital loop without its break.
MatchedNoBreak(line) ==
    SelectSeq(HospitalOrder, LAMBDA h : Contains(line, h))

\* The hospitals whose section is processed for a line: the loop over
\* target_sections breaks after the first name found in the line.
Matched(line) ==
    LET named == SelectSeq(HospitalOrder, LAMBDA h : Contains(line, h))
    IN  IF named = << >> THEN << >> ELSE <<named[1]>>

\* The map after the sections of hospitals hs[n..] are processed for line k.
RECURSIVE ProcessSections(_, _, _, _, _)
ProcessSections(L, map, k, hs, n) ==
    IF n > Len(hs) THEN map
    ELSE ProcessSections(L,
            [map EXCEPT ![hs[n]] = UpdateStats(@, SectionRecorded(L, k, hs[n]))],
            k, hs, n + 1)

\* Mutant: every hospital is listed, with or without stats.
ListComprehensionNoFilter(map) ==
    [n \in 1..Len(HospitalOrder) |->
        [name |-> HospitalOrder[n], stats |-> map[HospitalOrder[n]]]]

\* Mutant: the list is built in reverse order.
ListComprehensionReversed(map) ==
    LET kept == SelectSeq(HospitalOrder, LAMBDA h : DOMAIN map[h] # {})
    IN  [n \in 1..Len(kept) |->
            [name |-> kept[Len(kept) + 1 - n], stats |-> map[kept[Len(kept) + 1 - n]]]]

\* [data for name, data in hospital_data_map.items() if data['stats']]
ListComprehension(map) ==
    LET kept == SelectSeq(HospitalOrder, LAMBDA h : DOMAIN map[h] # {})
    IN  [n \in 1..Len(kept) |-> [name |-> kept[n], stats |-> map[kept[n]]]]

\* generate_html_table: the failure message for no data, else the columns
\* that exist and one row per record, missing values filled with 'N/A'.
generate_html_table(data) ==
    IF data = << >> THEN ParseFailedMsg
    ELSE LET existing == SelectSeq(column_order,
                LAMBDA c : c = "Hospital"
                           \/ \E n \in 1..Len(data) : c \in DOMAIN data[n].stats)
             cols == {existing[n] : n \in 1..Len(existing)}
         IN  [kind |-> "table",
              columns |-> existing,
              rows |-> [n \in 1..Len(data) |->
                  [c \in cols |->
                      IF c = "Hospital" THEN data[n].name
                      ELSE IF c \in DOMAIN data[n].stats THEN data[n].stats[c]
                      ELSE "N/A"]]]

-----------------------------------------------------------------------------
(* The state machine *)

Init ==
    /\ pc = "download"
    /\ lines = << >>
    /\ pdf_stream = Unset
    /\ i = 0
    /\ hospital_data_map = [h \in Hospitals |-> EmptyDict]
    /\ hospital_name = None
    /\ hdr = -1
    /\ search_block = << >>
    /\ ed_start_index = -1
    /\ recorded = EmptyDict
    /\ all_hospitals_data = << >>
    /\ html_table = NoTable
    /\ template = "Unread"
    /\ output = NoFile
    /\ parse_calls = 0
    /\ generate_calls = 0

scanVars == <<lines, i, hospital_data_map, hospital_name, hdr, search_block,
              ed_start_index, recorded>>

\* download_pdf: the stream, or None on a RequestException.
DownloadPdf ==
    /\ pc = "download"
    /\ \/ pdf_stream' = Stream
       \/ pdf_stream' = None
    /\ pc' = "branch"
    /\ UNCHANGED <<scanVars, all_hospitals_data, html_table, template,
                   output, parse_calls, generate_calls>>

\* Mutant: main parses whatever download_pdf returned.
MainDownloadFailedParses ==
    /\ pc = "branch"
    /\ pdf_stream = None
    /\ parse_calls' = parse_calls + 1
    /\ all_hospitals_data' = << >>
    /\ pc' = "generate"
    /\ UNCHANGED <<pdf_stream, scanVars, html_table, template, output,
                   generate_calls>>

\* main, `if not pdf_stream`: the fixed message, no parse.
MainDownloadFailed ==
    /\ pc = "branch"
    /\ pdf_stream = None
    /\ html_table' = DownloadFailedMsg
    /\ pc' = "template"
    /\ UNCHANGED <<pdf_stream, scanVars, all_hospitals_data, template,
                   output, parse_calls, generate_calls>>

\* main's else branch calls parse_emergency_data, which opens the PDF,
\* splits the first page into lines and builds hospital_data_map.
ParseOpen ==
    /\ pc = "branch"
    /\ pdf_stream = Stream
    /\ parse_calls' = parse_calls + 1
    /\ all_hospitals_data' = << >>
    /\ lines' \in Documents
    /\ hospital_data_map' = [h \in Hospitals |-> EmptyDict]
    /\ i' = 0
    /\ pc' = "scan"
    /\ UNCHANGED <<pdf_stream, hospital_name, hdr, search_block,
                   ed_start_index, recorded, html_table, template, output,
                   generate_calls>>

\* parse_emergency_data's except branch (the stream is no readable PDF):
\* it returns [].
ParseException ==
    /\ pc = "branch"
    /\ pdf_stream = Stream
    /\ parse_calls' = parse_calls + 1
    /\ all_hospitals_data' = << >>
    /\ pc' = "generate"
    /\ UNCHANGED <<pdf_stream, scanVars, html_table, template, output,
                   generate_calls>>

\* One iteration of `for i, line in enumerate(lines)`.
ScanLine ==
    /\ pc = "scan"
    /\ i < Len(lines)
    /\ LET hs == Matched(Line(lines, i))
       IN  /\ hospital_data_map' = ProcessSections(lines, hospital_data_map, i, hs, 1)
           /\ hdr' = i
           /\ IF hs = << >>
              THEN /\ hospital_name' = None
                   /\ search_block' = << >>
                   /\ ed_start_index' = -1
                   /\ recorded' = EmptyDict
              ELSE LET h == hs[Len(hs)]
                   IN  /\ hospital_name' = h
                       /\ search_block' = SearchBlock(lines, i)
                       /\ ed_start_index' = FindEd(lines, SearchBlock(lines, i), 0)
                       /\ recorded' = SectionRecorded(lines, i, h)
    /\ i' = i + 1
    /\ UNCHANGED <<pc, lines, pdf_stream, all_hospitals_data, html_table,
                   template, output, parse_calls, generate_calls>>

\* After the loop: the list of hospitals with stats is built; the state is
\* that of the return statement, the locals still in scope.
ParseReturn ==
    /\ pc = "scan"
    /\ i >= Len(lines)
    /\ all_hospitals_data' = ListComprehension(hospital_data_map)
    /\ pc' = "generate"
    /\ UNCHANGED <<pdf_stream, scanVars, html_table, template, output,
                   parse_calls, generate_calls>>

\* main: er_data is the returned list (the parse's locals are gone) and
\* html_table = generate_html_table(er_data).
GenerateTable ==
    /\ pc = "generate"
    /\ generate_calls' = generate_calls + 1
    /\ html_table' = generate_html_table(all_hospitals_data)
    /\ lines' = << >>
    /\ i' = 0
    /\ hospital_data_map' = [h \in Hospitals |-> EmptyDict]
    /\ hospital_name' = None
    /\ hdr' = -1
    /\ search_block' = << >>
    /\ ed_start_index' = -1
    /\ recorded' = EmptyDict
    /\ pc' = "template"
    /\ UNCHANGED <<pdf_stream, all_hospitals_data, template, output, parse_calls>>

\* main reads template.html; FileNotFoundError ends the run.
ReadTemplate ==
    /\ pc = "template"
    /\ \/ template' = "Found" /\ pc' = "write"
       \/ template' = "Missing" /\ pc' = "done"
    /\ UNCHANGED <<pdf_stream, scanVars, all_hospitals_data, html_table,
                   output, parse_calls, generate_calls>>

\* main substitutes the table in the template and writes index.html.
WriteOutput ==
    /\ pc = "write"
    /\ output' = [written |-> TRUE, data_table |-> html_table]
    /\ pc' = "done"
    /\ UNCHANGED <<pdf_stream, scanVars, all_hospitals_data, html_table,
                   template, parse_calls, generate_calls>>

Next ==
    \/ DownloadPdf
    \/ MainDownloadFailed
    \/ ParseOpen
    \/ ParseException
    \/ ScanLine
    \/ ParseReturn
    \/ GenerateTable
    \/ ReadTemplate
    \/ WriteOutput

Spec == Init /\ [][Next]_vars

-----------------------------------------------------------------------------
(* Vocabulary of the properties *)

TypeOK ==
    /\ pc \in {"download", "branch", "scan", "generate", "template", "write", "done"}
    /\ i \in 0..Len(lines)
    /\ \A h \in Hospitals : DOMAIN hospital_data_map[h] \subseteq StatsToFind(h)

Range(seq) == {seq[n] : n \in 1..Len(seq)}

MinOf(S) == CHOOSE x \in S : \A y \in S : x <= y

Rank(h) == CHOOSE n \in 1..Len(HospitalOrder) : HospitalOrder[n] = h

Named(line) == {h \in Hospitals : Contains(line, h)}

\* The hospital declared first among those named on the line, or None.
DeclaredFirst(line) ==
    IF Named(line) = {} THEN None
    ELSE CHOOSE h \in Named(line) : \A g \in Named(line) : Rank(h) <= Rank(g)

\* The lines at most 19 below line k.
Span(L, k) == {j \in (k + 1)..(k + 19) : j < Len(L)}

\* The lines of the last section's block from its first marker line on.
GatedWindow ==
    IF ed_start_index = -1 THEN {}
    ELSE {search_block[n] : n \in (ed_start_index + 1)..Len(search_block)}

\* The gated-window lines that contain the label / the label and a digit.
Candidates(key) == {j \in GatedWindow : Contains(Line(lines, j), key)}

GoodCandidates(key) == {j \in Candidates(key) : re_search(Line(lines, j)) # None}

\* The label's first candidate line has no digits.
Malformed(key) ==
    /\ Candidates(key) # {}
    /\ re_search(Line(lines, MinOf(Candidates(key)))) = None

RecordNames == {all_hospitals_data[n].name : n \in 1..Len(all_hospitals_data)}

Lookup(dict, key) == IF key \in DOMAIN dict THEN dict[key].value ELSE None

\* The line sequence with the label removed from line k.
Strip(L, k, key) == [L EXCEPT ![k + 1] = SelectSeq(@, LAMBDA tok : tok # key)]

-----------------------------------------------------------------------------
(* C1: truncation.  The window searched for the hospital found at a line   *)
(* never includes a line at or after the next line that contains a         *)
(* hospital name; hence no value recorded for the hospital is taken from a *)
(* line at or after the following header line.  Stated on the values       *)
(* recorded: the claim's consequence for the result.                       *)
C1_NoValueFromBeyondNextHeader ==
    hospital_name # None =>
        \A key \in DOMAIN recorded :
            \A k \in (hdr + 1)..recorded[key].line : Named(Line(lines, k)) = {}

-----------------------------------------------------------------------------
(* C2: gating.  A hospital for which no line of the span after any line    *)
(* naming it contains the marker has no stat recorded and no record in the *)
(* result, whatever labels and digits the span holds.                      *)
C2_Gating ==
    pc \in {"scan", "generate"} =>
        \A h \in Hospitals :
            (\A k \in 0..(i - 1) :
                Contains(Line(lines, k), h) =>
                    \A j \in Span(lines, k) : ~Contains(Line(lines, j), Marker))
            => /\ DOMAIN hospital_data_map[h] = {}
               /\ h \notin RecordNames

C2_Witness ==
    /\ pc = "generate"
    /\ \E h \in Hospitals :
        /\ \A k \in 0..(Len(lines) - 1) :
              Contains(Line(lines, k), h) =>
                  \A j \in Span(lines, k) : ~Contains(Line(lines, j), Marker)
        /\ \E k \in 0..(Len(lines) - 1) :
              /\ DeclaredFirst(Line(lines, k)) = h
              /\ \E j \in Span(lines, k) : \E key \in StatsToFind(h) :
                    /\ Contains(Line(lines, j), key)
                    /\ re_search(Line(lines, j)) # None
        /\ DOMAIN hospital_data_map[h] = {}
        /\ h \notin RecordNames

-----------------------------------------------------------------------------
(* C3: the returned records are in the declaration order of the hospitals, *)
(* each hospital at most once, whatever the order of the names in the      *)
(* lines.                                                                  *)
C3_DeclarationOrder ==
    \A p, q \in 1..Len(all_hospitals_data) :
        p < q => Rank(all_hospitals_data[p].name) < Rank(all_hospitals_data[q].name)

C3_Witness ==
    /\ pc = "generate"
    /\ Len(all_hospitals_data) >= 2
    /\ \E a, b \in 0..(Len(lines) - 1) :
        /\ a < b
        /\ DeclaredFirst(Line(lines, a)) = all_hospitals_data[2].name
        /\ DeclaredFirst(Line(lines, b)) = all_hospitals_data[1].name
        /\ \A k \in 0..(b - 1) :
              ~Contains(Line(lines, k), all_hospitals_data[1].name)

-----------------------------------------------------------------------------
(* C4: the result holds a record for a hospital exactly when a stat was    *)
(* extracted for it; a hospital named on no line has none, and no record   *)
(* has an empty stats mapping.                                             *)
C4_RecordIffStats ==
    pc = "generate" =>
        /\ \A h \in Hospitals : h \in RecordNames <=> DOMAIN hospital_data_map[h] # {}
        /\ \A n \in 1..Len(all_hospitals_data) :
              /\ DOMAIN all_hospitals_data[n].stats # {}
              /\ all_hospitals_data[n].stats = hospital_data_map[all_hospitals_data[n].name]
        /\ \A h \in Hospitals :
              (\A k \in 0..(Len(lines) - 1) : ~Contains(Line(lines, k), h))
              => h \notin RecordNames

C4_Witness ==
    /\ pc = "generate"
    /\ RecordNames # {}
    /\ \E h \in Hospitals :
        /\ \E k \in 0..(Len(lines) - 1) : Contains(Line(lines, k), h)
        /\ h \notin RecordNames
    /\ \E h \in Hospitals :
        /\ \A k \in 0..(Len(lines) - 1) : ~Contains(Line(lines, k), h)
        /\ h \notin RecordNames

-----------------------------------------------------------------------------
(* C5 as stated: when the first line of the window that contains a label   *)
(* has no digits, the label is absent from the hospital's mapping.         *)
C5_NoDigitsStopsSearch ==
    hospital_name # None =>
        \A key \in StatsToFind(hospital_name) :
            Malformed(key) => key \notin DOMAIN hospital_data_map[hospital_name]

(* C5 amended: when the first line of the gated window that contains a     *)
(* label has no digits, the search goes on: the label gets the first digit *)
(* run of the first window line holding both the label and a digit, and is *)
(* not recorded by the window only when there is no such line; the values  *)
(* of the other labels are those extracted when that line does not contain *)
(* the label.                                                              *)
C5_NoDigitsSearchContinues ==
    hospital_name # None =>
        \A key \in StatsToFind(hospital_name) :
            Malformed(key) =>
                /\ key \in DOMAIN recorded <=> GoodCandidates(key) # {}
                /\ key \in DOMAIN recorded =>
                      /\ recorded[key].line = MinOf(GoodCandidates(key))
                      /\ recorded[key].line > MinOf(Candidates(key))
                      /\ hospital_data_map[hospital_name][key]
                            = re_search(Line(lines, MinOf(GoodCandidates(key))))
                /\ \A other \in StatsToFind(hospital_name) \ {key} :
                      Lookup(recorded, other)
                        = Lookup(SectionRecorded(
                                    Strip(lines, MinOf(Candidates(key)), key),
                                    hdr, hospital_name), other)

C5_Witness ==
    /\ hospital_name # None
    /\ \E key \in StatsToFind(hospital_name) :
        /\ Malformed(key)
        /\ key \in DOMAIN recorded
        /\ \E other \in DOMAIN recorded : other # key

-----------------------------------------------------------------------------
(* C6 as stated: a label is recorded at most once per window, and its      *)
(* value is the first digit run of the first window line that contains the *)
(* label.                                                                  *)
C6_FirstLabelLineWins ==
    hospital_name # None =>
        \A key \in DOMAIN recorded :
            /\ recorded[key].writes = 1
            /\ recorded[key].line = MinOf(Candidates(key))
            /\ recorded[key].value = re_search(Line(lines, MinOf(Candidates(key))))

(* C6 amended: a label is recorded at most once per window; its value is   *)
(* the first digit run of the first line of the gated window that contains *)
(* both the label and a digit, and later lines of the window with the same *)
(* label never change it.                                                  *)
C6_FirstLabelLineWithDigitsWins ==
    hospital_name # None =>
        \A key \in DOMAIN recorded :
            /\ recorded[key].writes = 1
            /\ recorded[key].line = MinOf(GoodCandidates(key))
            /\ recorded[key].value = re_search(Line(lines, MinOf(GoodCandidates(key))))
            /\ hospital_data_map[hospital_name][key] = recorded[key].value

C6_Witness ==
    /\ hospital_name # None
    /\ \E key \in DOMAIN recorded :
        \E j \in GoodCandidates(key) :
            /\ j > recorded[key].line
            /\ re_search(Line(lines, j)) # recorded[key].value
            /\ hospital_data_map[hospital_name][key] = recorded[key].value

-----------------------------------------------------------------------------
(* C7: on a line naming two or more hospitals only the one declared first  *)
(* is entered; the step records nothing for any other hospital.            *)
C7_FirstConfiguredWins ==
    [][(pc = "scan" /\ i < Len(lines)) =>
          /\ hospital_name' = DeclaredFirst(Line(lines, i))
          /\ \A h \in Hospitals \ {DeclaredFirst(Line(lines, i))} :
                hospital_data_map'[h] = hospital_data_map[h]]_vars

C7_Witness ==
    /\ pc = "scan"
    /\ hdr >= 0
    /\ Cardinality(Named(Line(lines, hdr))) >= 2
    /\ hospital_name = DeclaredFirst(Line(lines, hdr))
    /\ DOMAIN recorded # {}
    /\ \E h \in Named(Line(lines, hdr)) \ {hospital_name} :
          DOMAIN hospital_data_map[h] = {}

-----------------------------------------------------------------------------
(* C8: after a failed download neither the parser nor the table generator  *)
(* runs, the data table is the download-failure message, and the output is *)
(* written whenever the template is read; the parser runs only after a     *)
(* successful download.                                                    *)
C8_NoParseAfterFailedDownload ==
    /\ pdf_stream = None =>
          /\ parse_calls = 0
          /\ generate_calls = 0
          /\ pc \in {"template", "write", "done"} => html_table = DownloadFailedMsg
          /\ (pc = "done" /\ template = "Found") =>
                output = [written |-> TRUE, data_table |-> DownloadFailedMsg]
    /\ parse_calls > 0 => pdf_stream = Stream
    /\ (pc = "done" /\ template = "Found") => output.written

C8_Witness ==
    /\ pc = "done"
    /\ pdf_stream = None
    /\ parse_calls = 0
    /\ output = [written |-> TRUE, data_table |-> DownloadFailedMsg]

-----------------------------------------------------------------------------
(* C9 as stated: once a value is recorded for a (hospital, label) pair, no *)
(* later line of the scan changes it.                                      *)
C9_RecordedNeverChanges ==
    [][pc = "scan" =>
          \A h \in Hospitals : \A key \in DOMAIN hospital_data_map[h] :
              /\ key \in DOMAIN hospital_data_map'[h]
              /\ hospital_data_map'[h][key] = hospital_data_map[h][key]]_vars

(* C9 amended: a hospital is entered at every line on which it is the      *)
(* first configured name.  A recorded value is never removed, and a later  *)
(* line changes it only when that line enters the same hospital again and  *)
(* its own gated window yields a value for the label, which replaces it.   *)
C9_ChangedOnlyByOwnHeader ==
    [][(pc = "scan" /\ i < Len(lines)) =>
          \A h \in Hospitals : \A key \in DOMAIN hospital_data_map[h] :
              /\ key \in DOMAIN hospital_data_map'[h]
              /\ hospital_data_map'[h][key] # hospital_data_map[h][key] =>
                    /\ DeclaredFirst(Line(lines, i)) = h
                    /\ key \in DOMAIN recorded'
                    /\ hospital_data_map'[h][key] = recorded'[key].value]_vars

C9_Witness ==
    /\ hospital_name # None
    /\ \E k \in 0..(hdr - 1) :
        /\ DeclaredFirst(Line(lines, k)) = hospital_name
        /\ \E key \in DOMAIN recorded :
            /\ key \in DOMAIN SectionRecorded(lines, k, hospital_name)
            /\ SectionRecorded(lines, k, hospital_name)[key].value # recorded[key].value
            /\ hospital_data_map[hospital_name][key] = recorded[key].value

-----------------------------------------------------------------------------
(* C10: for a header at line i every line consulted has index j with       *)
(* i < j <= i+19, and stats are taken only from lines at or after the      *)
(* first marker line of that span.                                         *)
C10_WindowBound ==
    hospital_name # None =>
        /\ \A j \in Range(search_block) : hdr < j /\ j <= hdr + 19
        /\ ed_start_index = -1 => DOMAIN recorded = {}
        /\ ed_start_index # -1 =>
              /\ Contains(Line(lines, search_block[ed_start_index + 1]), Marker)
              /\ \A n \in 1..ed_start_index :
                    ~Contains(Line(lines, search_block[n]), Marker)
              /\ \A key \in DOMAIN recorded :
                    /\ recorded[key].line \in Range(search_block)
                    /\ recorded[key].line >= search_block[ed_start_index + 1]
                    /\ recorded[key].line <= hdr + 19

C10_Witness ==
    /\ hospital_name # None
    /\ \E key \in DOMAIN recorded : recorded[key].line = hdr + 19
    /\ Len(lines) > hdr + 20

====
